---------------------------- MODULE Spec2Model ----------------------------
(***************************************************************************)
(* cloak: builds country-level nftables allow/block lists.                 *)
(*                                                                         *)
(* main() fetches, for every country of the selected group, the IPv4 and   *)
(* the IPv6 aggregated zone of ipdeny.com, parses every line of the body   *)
(* as an IpNetwork, collects the result in a HashMap keyed by country      *)
(* code, dumps the map as pretty JSON, renders an nftables rule file and   *)
(* offers to load it with "sudo nft -f".                                   *)
(*                                                                         *)
(* Texts (URLs, feed bodies, file names, file lines, console lines) are    *)
(* strings; TLC treats a string as a sequence of characters under Len,     *)
(* SubSeq and \o, which is how the text functions below are computed.      *)
(***************************************************************************)
EXTENDS Integers, Sequences, FiniteSets, TLC

(***************************************************************************)
(* Bounds of the model.                                                    *)
(***************************************************************************)
\* Only the first MaxCountries entries of a group's table are processed.
MaxCountries == 2

(***************************************************************************)
(* Text helpers.                                                           *)
(***************************************************************************)
Char(s, i) == SubSeq(s, i, i)

Min(a, b) == IF a < b THEN a ELSE b

Last(s) == s[Len(s)]

\* Position of the first occurrence of the one-character text c in s, or 0.
Find(s, c) ==
  IF \E i \in 1..Len(s) : Char(s, i) = c
    THEN CHOOSE i \in 1..Len(s) :
           Char(s, i) = c /\ \A j \in 1..(i - 1) : Char(s, j) # c
    ELSE 0

\* Position of the first occurrence of "::" in s, or 0.
FindDoubleColon(s) ==
  IF \E i \in 1..(Len(s) - 1) : SubSeq(s, i, i + 1) = "::"
    THEN CHOOSE i \in 1..(Len(s) - 1) :
           SubSeq(s, i, i + 1) = "::"
           /\ \A j \in 1..(i - 1) : SubSeq(s, j, j + 1) # "::"
    ELSE 0

\* str::split(c): the pieces of s between occurrences of c (always at least one).
RECURSIVE Split(_, _)
Split(s, c) ==
  LET k == Find(s, c)
  IN  IF k = 0 THEN <<s>>
      ELSE <<SubSeq(s, 1, k - 1)>> \o Split(SubSeq(s, k + 1, Len(s)), c)

\* The texts of a sequence written one after the other.
RECURSIVE Concat(_)
Concat(ss) == IF ss = <<>> THEN "" ELSE Head(ss) \o Concat(Tail(ss))

\* The sequences of a sequence of sequences, one after the other.
RECURSIVE Flatten(_)
Flatten(ss) == IF ss = <<>> THEN <<>> ELSE Head(ss) \o Flatten(Tail(ss))

\* char::is_whitespace: the characters with the Unicode property White_Space,
\* which are U+0009 to U+000D, U+0020, U+0085, U+00A0, U+1680, U+2000 to
\* U+200A, U+2028, U+2029, U+202F, U+205F and U+3000.  The set holds those of
\* them a string of this module can hold (its last four members are U+000B,
\* U+0085, U+00A0, U+1680); the characters from U+2000 on are no part of any
\* string here, so that no text of the model contains one.  The feed bodies
\* and the answers explored hold characters up to U+007F only.
WhiteSpace == {" ", "\t", "\n", "\r", "\f", "", "", " ", " "}

\* str::trim(): leading and trailing white space removed.
RECURSIVE trim_start(_)
trim_start(s) ==
  IF Len(s) > 0 /\ Char(s, 1) \in WhiteSpace
    THEN trim_start(SubSeq(s, 2, Len(s))) ELSE s

RECURSIVE trim_end(_)
trim_end(s) ==
  IF Len(s) > 0 /\ Char(s, Len(s)) \in WhiteSpace
    THEN trim_end(SubSeq(s, 1, Len(s) - 1)) ELSE s

trim(s) == trim_end(trim_start(s))

\* str::lines(): the pieces ended by "\n" (a "\r" before it removed with it),
\* and a last piece without "\n" when it is not empty.
RECURSIVE lines(_)
lines(body) ==
  LET k == Find(body, "\n")
  IN  IF body = "" THEN <<>>
      ELSE IF k = 0 THEN <<body>>
      ELSE LET raw == SubSeq(body, 1, k - 1)
               line == IF Len(raw) > 0 /\ Char(raw, Len(raw)) = "\r"
                         THEN SubSeq(raw, 1, Len(raw) - 1) ELSE raw
           IN  <<line>> \o lines(SubSeq(body, k + 1, Len(body)))

LowerAlphabet == "abcdefghijklmnopqrstuvwxyz"
UpperAlphabet == "ABCDEFGHIJKLMNOPQRSTUVWXYZ"

\* char::to_ascii_lowercase / to_uppercase on one character.
LowerChar(c) ==
  IF \E i \in 1..26 : Char(UpperAlphabet, i) = c
    THEN Char(LowerAlphabet, CHOOSE i \in 1..26 : Char(UpperAlphabet, i) = c)
    ELSE c

UpperChar(c) ==
  IF \E i \in 1..26 : Char(LowerAlphabet, i) = c
    THEN Char(UpperAlphabet, CHOOSE i \in 1..26 : Char(LowerAlphabet, i) = c)
    ELSE c

\* str::to_uppercase() of the country code.
to_uppercase(s) == Concat([i \in 1..Len(s) |-> UpperChar(Char(s, i))])

\* str::eq_ignore_ascii_case
eq_ignore_ascii_case(a, b) ==
  /\ Len(a) = Len(b)
  /\ \A i \in 1..Len(a) : LowerChar(Char(a, i)) = LowerChar(Char(b, i))

(***************************************************************************)
(* token.parse::<IpNetwork>() and its Display, as the ipnetwork crate and  *)
(* std::net compute them.  A network is [fam, addr, prefix]: fam is 4 or   *)
(* 6, addr the four octets or the eight 16-bit segments.                   *)
(***************************************************************************)
IPV4_BITS == 32
IPV6_BITS == 128

HexDigits == "0123456789abcdef"

\* Value of a hexadecimal digit (either case), or -1.
HexVal(c) ==
  LET l == LowerChar(c)
  IN  IF \E i \in 1..16 : Char(HexDigits, i) = l
        THEN (CHOOSE i \in 1..16 : Char(HexDigits, i) = l) - 1
        ELSE -1

IsDigit(c) == c \in {"0", "1", "2", "3", "4", "5", "6", "7", "8", "9"}

IsHexDigit(c) == HexVal(c) >= 0

\* Value of a text of digits in the given radix.
RECURSIVE Number(_, _)
Number(s, radix) ==
  IF s = "" THEN 0
  ELSE Number(SubSeq(s, 1, Len(s) - 1), radix) * radix + HexVal(Char(s, Len(s)))

AllDigits(s) == Len(s) > 0 /\ \A i \in 1..Len(s) : IsDigit(Char(s, i))

\* One octet of Ipv4Addr::from_str: one to three decimal digits, no leading
\* zero before another digit, at most 255.
IsOctet(s) ==
  /\ AllDigits(s)
  /\ Len(s) <= 3
  /\ (Len(s) > 1 => Char(s, 1) # "0")
  /\ Number(s, 10) <= 255

\* Ipv4Addr::from_str: the four octets, or <<>> when s is no IPv4 address.
parse_ipv4_addr(s) ==
  LET parts == Split(s, ".")
  IN  IF Len(parts) = 4 /\ \A i \in 1..4 : IsOctet(parts[i])
        THEN [i \in 1..4 |-> Number(parts[i], 10)]
        ELSE <<>>

\* One group of Ipv6Addr::from_str: one to four hexadecimal digits.
IsGroup(s) ==
  /\ Len(s) \in 1..4
  /\ \A i \in 1..Len(s) : IsHexDigit(Char(s, i))

\* The segments of the parts of a chunk: every part but the last is a
\* group, the last is a group or an embedded IPv4 address (two segments);
\* <<-1>> when the chunk is malformed.
groups_of(parts, n, v4) ==
  IF \E i \in 1..(n - 1) : ~IsGroup(parts[i]) THEN <<-1>>
  ELSE IF IsGroup(parts[n])
    THEN [i \in 1..n |-> Number(parts[i], 16)]
  ELSE IF v4 # <<>>
    THEN [i \in 1..(n - 1) |-> Number(parts[i], 16)]
           \o <<v4[1] * 256 + v4[2], v4[3] * 256 + v4[4]>>
  ELSE <<-1>>

last_ipv4(parts) == parse_ipv4_addr(parts[Len(parts)])

split_groups(parts) == groups_of(parts, Len(parts), last_ipv4(parts))

\* The 16-bit segments of a chunk of groups separated by ":"; the empty
\* chunk has no segment.
parse_groups(s) == IF s = "" THEN <<>> ELSE split_groups(Split(s, ":"))

Zeros(n) == [i \in 1..n |-> 0]

\* An address without "::" has exactly eight segments.
whole_addr(segs) == IF segs # <<-1>> /\ Len(segs) = 8 THEN segs ELSE <<>>

\* An address with "::": the groups before it (no embedded IPv4 there) and
\* after it are at most seven, and "::" stands for the missing zeros.
compressed_addr(before, head, tail) ==
  IF head = <<-1>> \/ tail = <<-1>> THEN <<>>
  ELSE IF Find(before, ".") # 0 THEN <<>>
  ELSE IF Len(head) + Len(tail) > 7 THEN <<>>
  ELSE head \o Zeros(8 - Len(head) - Len(tail)) \o tail

split_addr(s, k) ==
  IF k = 0 THEN whole_addr(parse_groups(s))
  ELSE compressed_addr(SubSeq(s, 1, k - 1),
                       parse_groups(SubSeq(s, 1, k - 1)),
                       parse_groups(SubSeq(s, k + 2, Len(s))))

\* Ipv6Addr::from_str: the eight segments, or <<>> when s is no IPv6
\* address.
parse_ipv6_addr(s) == split_addr(s, FindDoubleColon(s))

\* The text before the slash and the text after it; has is FALSE when
\* there is no slash, ok is FALSE when there are several.
parts_at(s, k) ==
  IF k = 0 THEN [ok |-> TRUE, addr |-> s, has |-> FALSE, prefix |-> ""]
  ELSE IF Find(SubSeq(s, k + 1, Len(s)), "/") # 0
    THEN [ok |-> FALSE, addr |-> "", has |-> FALSE, prefix |-> ""]
  ELSE [ok |-> TRUE, addr |-> SubSeq(s, 1, k - 1), has |-> TRUE,
        prefix |-> SubSeq(s, k + 1, Len(s))]

\* What IpNetwork::from_str accepts besides "address/prefixlen" is decided by
\* the version of the ipnetwork crate the program is built with, which the
\* source does not fix.  A build is "strict" when the slash and a numeric
\* prefix length are required, "extended" when an address without a slash is
\* a host network and an IPv4 address may be followed by a dotted netmask.
Forms == {"strict", "extended"}

\* The address part and the prefix part of a text.
cidr_parts(s, forms) ==
  IF Find(s, "/") = 0 /\ forms = "strict"
    THEN [ok |-> FALSE, addr |-> "", has |-> FALSE, prefix |-> ""]
    ELSE parts_at(s, Find(s, "/"))

\* A text of digits without its leading zeros (the last digit is kept).
RECURSIVE StripZeros(_)
StripZeros(s) ==
  IF Len(s) > 1 /\ Char(s, 1) = "0" THEN StripZeros(SubSeq(s, 2, Len(s))) ELSE s

u8_of(digits, z) ==
  IF AllDigits(digits) /\ Len(z) <= 3 /\ Number(z, 10) <= 255
    THEN Number(z, 10) ELSE -1

unsigned(s) ==
  IF Len(s) > 0 /\ Char(s, 1) = "+" THEN SubSeq(s, 2, Len(s)) ELSE s

\* u8::from_str: an optional "+", then decimal digits (leading zeros
\* allowed) of a value of at most 255; -1 otherwise.
parse_u8(s) == u8_of(unsigned(s), StripZeros(unsigned(s)))

at_most(mask, max) == IF mask < 0 \/ mask > max THEN -1 ELSE mask

\* ipnetwork parse_prefix: a u8 of at most max; -1 otherwise.
parse_prefix(s, max) == at_most(parse_u8(s), max)

\* Bit i (1 is the most significant) of a 32-bit mask given by its octets.
MaskBit(octets, i) ==
  LET o == octets[((i - 1) \div 8) + 1]
      j == ((i - 1) % 8) + 1
  IN  (o \div (2 ^ (8 - j))) % 2

ones_then_zeros(octets, ones) ==
  IF \A i \in (ones + 1)..32 : MaskBit(octets, i) = 0 THEN ones ELSE -1

\* ipnetwork ipv4_mask_to_prefix: the number of leading one bits of the
\* mask, provided every bit after them is zero; -1 otherwise.
ipv4_mask_to_prefix(octets) ==
  ones_then_zeros(octets,
    Cardinality({i \in 1..32 : \A j \in 1..i : MaskBit(octets, j) = 1}))

NoNet == [fam |-> 0, addr |-> <<>>, prefix |-> 0]

\* Ipv4Network::new / Ipv6Network::new of a parsed address and prefix.
new_network(fam, ok, addr, prefix) ==
  IF ok /\ addr # <<>> /\ prefix >= 0
    THEN [fam |-> fam, addr |-> addr, prefix |-> prefix]
    ELSE NoNet

netmask_or_prefix(text, netmask, forms) ==
  IF forms = "extended" /\ netmask # <<>> THEN ipv4_mask_to_prefix(netmask)
  ELSE parse_prefix(text, IPV4_BITS)

ipv4_prefix(parts, forms) ==
  IF ~parts.has THEN IPV4_BITS
  ELSE netmask_or_prefix(parts.prefix, parse_ipv4_addr(parts.prefix), forms)

ipv4_network_of(parts, forms) ==
  new_network(4, parts.ok, parse_ipv4_addr(parts.addr), ipv4_prefix(parts, forms))

\* Ipv4Network::from_str: an address, a slash and a prefix length of at most
\* 32; in an extended build also an address alone (a host, /32) and an
\* address, a slash and a dotted netmask.
parse_ipv4_network(s, forms) == ipv4_network_of(cidr_parts(s, forms), forms)

ipv6_prefix(parts) ==
  IF ~parts.has THEN IPV6_BITS ELSE parse_prefix(parts.prefix, IPV6_BITS)

ipv6_network_of(parts) ==
  new_network(6, parts.ok, parse_ipv6_addr(parts.addr), ipv6_prefix(parts))

\* Ipv6Network::from_str: an address, a slash and a prefix length of at most
\* 128; in an extended build also an address alone (a host, /128).
parse_ipv6_network(s, forms) == ipv6_network_of(cidr_parts(s, forms))

or_else(v4, v6) == IF v4 # NoNet THEN v4 ELSE v6

\* IpNetwork::from_str: an IPv4 network, else an IPv6 network, else an
\* error (NoNet).
parse_ip_network(s, forms) ==
  or_else(parse_ipv4_network(s, forms), parse_ipv6_network(s, forms))

\* {:x} of a 16-bit segment.
RECURSIVE ToHex(_)
ToHex(n) ==
  IF n < 16 THEN Char(HexDigits, n + 1)
  ELSE ToHex(n \div 16) \o Char(HexDigits, (n % 16) + 1)

\* The texts of a sequence joined by sep.
RECURSIVE Join(_, _)
Join(ss, sep) ==
  IF ss = <<>> THEN ""
  ELSE IF Len(ss) = 1 THEN ss[1]
  ELSE ss[1] \o sep \o Join(Tail(ss), sep)

ipv4_to_string(octets) == Join([i \in 1..4 |-> ToString(octets[i])], ".")

\* Length of the run of zero segments that starts at position i.
ZeroRun(segs, i) ==
  Cardinality({n \in 1..(9 - i) : \A j \in i..(i + n - 1) : segs[j] = 0})

hex_groups(segs, a, b) ==
  Join([i \in 1..(b - a + 1) |-> ToHex(segs[a + i - 1])], ":")

compress(segs, best, len) ==
  IF len > 1
    THEN hex_groups(segs, 1, best - 1) \o "::" \o hex_groups(segs, best + len, 8)
    ELSE hex_groups(segs, 1, 8)

compress_at(segs, best) == compress(segs, best, ZeroRun(segs, best))

\* The start of the first longest run of zero segments.
first_longest(runs) ==
  CHOOSE i \in 1..8 :
    /\ \A j \in 1..8 : runs[j] <= runs[i]
    /\ \A j \in 1..(i - 1) : runs[j] < runs[i]

longest_run(segs) == first_longest([i \in 1..8 |-> ZeroRun(segs, i)])

\* Display of Ipv6Addr: an IPv4-mapped address as ::ffff:a.b.c.d, else
\* the segments in lower-case hexadecimal with the first longest run of
\* two or more zero segments written "::".
ipv6_to_string(segs) ==
  IF SubSeq(segs, 1, 6) = <<0, 0, 0, 0, 0, 65535>>
    THEN "::ffff:" \o ipv4_to_string(<<segs[7] \div 256, segs[7] % 256,
                                       segs[8] \div 256, segs[8] % 256>>)
    ELSE compress_at(segs, longest_run(segs))

\* Display of IpNetwork: address "/" prefix.
net_to_string(net) ==
  (IF net.fam = 4 THEN ipv4_to_string(net.addr) ELSE ipv6_to_string(net.addr))
    \o "/" \o ToString(net.prefix)

(***************************************************************************)
(* The command line and the country tables of main().                      *)
(***************************************************************************)
IPV4_BASE == "https://www.ipdeny.com/ipblocks/data/aggregated"
IPV6_BASE == "https://www.ipdeny.com/ipv6/ipaddresses/aggregated"

ListChoice == {"Brics", "Nato", "Eu", "Asean", "G7", "G20", "Opec", "Africa"}

Action == {"Allow", "Block"}

\* Display of ListChoice, used in the file names.
ListChoiceDisplay(l) ==
  CASE l = "Brics" -> "brics"
    [] l = "Nato" -> "nato"
    [] l = "Eu" -> "eu"
    [] l = "Asean" -> "asean"
    [] l = "G7" -> "g7"
    [] l = "G20" -> "g20"
    [] l = "Opec" -> "opec"
    [] l = "Africa" -> "african_union"

\* Display of Action, used in the rule file's name.
ActionDisplay(a) ==
  CASE a = "Allow" -> "allow"
    [] a = "Block" -> "block"

brics ==
  <<<<"br", "Brazil">>, <<"ru", "Russia">>, <<"in", "India">>,
    <<"cn", "China">>, <<"za", "South Africa">>>>

nato ==
  <<<<"al", "Albania">>, <<"be", "Belgium">>, <<"bg", "Bulgaria">>,
    <<"ca", "Canada">>, <<"hr", "Croatia">>, <<"cz", "Czechia">>,
    <<"dk", "Denmark">>, <<"ee", "Estonia">>, <<"fi", "Finland">>,
    <<"fr", "France">>, <<"de", "Germany">>, <<"gr", "Greece">>,
    <<"hu", "Hungary">>, <<"is", "Iceland">>, <<"it", "Italy">>,
    <<"lv", "Latvia">>, <<"lt", "Lithuania">>, <<"lu", "Luxembourg">>,
    <<"mt", "Malta">>, <<"nl", "Netherlands">>, <<"no", "Norway">>,
    <<"pl", "Poland">>, <<"pt", "Portugal">>, <<"ro", "Romania">>,
    <<"sk", "Slovakia">>, <<"si", "Slovenia">>, <<"es", "Spain">>,
    <<"se", "Sweden">>, <<"tr", "Türkiye">>, <<"gb", "United Kingdom">>,
    <<"us", "United States">>>>

eu ==
  <<<<"at", "Austria">>, <<"be", "Belgium">>, <<"bg", "Bulgaria">>,
    <<"hr", "Croatia">>, <<"cy", "Cyprus">>, <<"cz", "Czechia">>,
    <<"dk", "Denmark">>, <<"ee", "Estonia">>, <<"fi", "Finland">>,
    <<"fr", "France">>, <<"de", "Germany">>, <<"gr", "Greece">>,
    <<"hu", "Hungary">>, <<"ie", "Ireland">>, <<"it", "Italy">>,
    <<"lv", "Latvia">>, <<"lt", "Lithuania">>, <<"lu", "Luxembourg">>,
    <<"mt", "Malta">>, <<"nl", "Netherlands">>, <<"pl", "Poland">>,
    <<"pt", "Portugal">>, <<"ro", "Romania">>, <<"sk", "Slovakia">>,
    <<"si", "Slovenia">>, <<"es", "Spain">>, <<"se", "Sweden">>>>

asean ==
  <<<<"id", "Indonesia">>, <<"my", "Malaysia">>, <<"ph", "Philippines">>,
    <<"sg", "Singapore">>, <<"th", "Thailand">>, <<"vn", "Vietnam">>,
    <<"mm", "Myanmar">>, <<"kh", "Cambodia">>, <<"la", "Laos">>,
    <<"bn", "Brunei">>>>

g7 ==
  <<<<"ca", "Canada">>, <<"fr", "France">>, <<"de", "Germany">>,
    <<"it", "Italy">>, <<"jp", "Japan">>, <<"gb", "United Kingdom">>,
    <<"us", "United States">>>>

g20 ==
  <<<<"ar", "Argentina">>, <<"au", "Australia">>, <<"br", "Brazil">>,
    <<"ca", "Canada">>, <<"cn", "China">>, <<"fr", "France">>,
    <<"de", "Germany">>, <<"in", "India">>, <<"id", "Indonesia">>,
    <<"it", "Italy">>, <<"jp", "Japan">>, <<"mx", "Mexico">>,
    <<"ru", "Russia">>, <<"sa", "Saudi Arabia">>, <<"za", "South Africa">>,
    <<"kr", "South Korea">>, <<"tr", "Türkiye">>,
    <<"gb", "United Kingdom">>, <<"us", "United States">>,
    <<"eu", "European Union">>>>

opec ==
  <<<<"dz", "Algeria">>, <<"ao", "Angola">>, <<"cd", "Congo">>,
    <<"gq", "Equatorial Guinea">>, <<"ga", "Gabon">>, <<"iq", "Iraq">>,
    <<"kw", "Kuwait">>, <<"ly", "Libya">>, <<"ng", "Nigeria">>,
    <<"sa", "Saudi Arabia">>, <<"ae", "United Arab Emirates">>,
    <<"ve", "Venezuela">>>>

african_union ==
  <<<<"dz", "Algeria">>, <<"ao", "Angola">>, <<"bj", "Benin">>,
    <<"bw", "Botswana">>, <<"bf", "Burkina Faso">>, <<"bi", "Burundi">>,
    <<"cm", "Cameroon">>, <<"cv", "Cape Verde">>,
    <<"cf", "Central African Republic">>, <<"td", "Chad">>,
    <<"km", "Comoros">>, <<"cg", "Congo">>,
    <<"cd", "Democratic Republic of the Congo">>,
    <<"ci", "Côte d'Ivoire">>, <<"dj", "Djibouti">>, <<"eg", "Egypt">>,
    <<"gq", "Equatorial Guinea">>, <<"er", "Eritrea">>,
    <<"sz", "Eswatini">>, <<"et", "Ethiopia">>, <<"ga", "Gabon">>,
    <<"gm", "Gambia">>, <<"gh", "Ghana">>, <<"gn", "Guinea">>,
    <<"gw", "Guinea-Bissau">>, <<"ke", "Kenya">>, <<"ls", "Lesotho">>,
    <<"lr", "Liberia">>, <<"ly", "Libya">>, <<"mg", "Madagascar">>,
    <<"mw", "Malawi">>, <<"ml", "Mali">>, <<"mr", "Mauritania">>,
    <<"mu", "Mauritius">>, <<"ma", "Morocco">>, <<"mz", "Mozambique">>,
    <<"na", "Namibia">>, <<"ne", "Niger">>, <<"ng", "Nigeria">>,
    <<"rw", "Rwanda">>, <<"st", "São Tomé and Príncipe">>,
    <<"sn", "Senegal">>, <<"sc", "Seychelles">>, <<"sl", "Sierra Leone">>,
    <<"so", "Somalia">>, <<"za", "South Africa">>, <<"ss", "South Sudan">>,
    <<"sd", "Sudan">>, <<"tz", "Tanzania">>, <<"tg", "Togo">>,
    <<"tn", "Tunisia">>, <<"ug", "Uganda">>, <<"zm", "Zambia">>,
    <<"zw", "Zimbabwe">>>>

\* match args.list: the table of the selected group.
GroupTable(l) ==
  CASE l = "Brics" -> brics
    [] l = "Nato" -> nato
    [] l = "Eu" -> eu
    [] l = "Asean" -> asean
    [] l = "G7" -> g7
    [] l = "G20" -> g20
    [] l = "Opec" -> opec
    [] l = "Africa" -> african_union

\* The countries of a run: the table's first MaxCountries entries.
countries(l) == SubSeq(GroupTable(l), 1, Min(MaxCountries, Len(GroupTable(l))))

Codes(l) == {countries(l)[i][1] : i \in 1..Len(countries(l))}

ipv4_url(cc) == IPV4_BASE \o "/" \o cc \o "-aggregated.zone"
ipv6_url(cc) == IPV6_BASE \o "/" \o cc \o "-aggregated.zone"

Urls(l) == {ipv4_url(cc) : cc \in Codes(l)} \cup {ipv6_url(cc) : cc \in Codes(l)}

filename(l) == ListChoiceDisplay(l) \o "_ip_map.json"

nft_filename(l, a) == ListChoiceDisplay(l) \o "_" \o ActionDisplay(a) \o ".nft"

(***************************************************************************)
(* fetch_cidrs: the networks of a feed body.                               *)
(***************************************************************************)
\* if token.is_empty() { continue } if let Ok(net) = parse { push }
push(token, net) == IF token = "" \/ net = NoNet THEN <<>> ELSE <<net>>

parse_token(token, forms) == push(token, parse_ip_network(token, forms))

\* The loop over body.lines(): a line that is blank after trim, or that
\* does not parse, adds nothing; any other line adds its network.
RECURSIVE parse_lines(_, _)
parse_lines(ls, forms) ==
  IF ls = <<>> THEN <<>>
  ELSE parse_token(trim(Head(ls)), forms) \o parse_lines(Tail(ls), forms)

parse_body(body, forms) == parse_lines(lines(body), forms)

(***************************************************************************)
(* The HashMap<String, CountryNets>.  A map is a function from the codes   *)
(* inserted so far to [ipv4, ipv6]; the order in which a HashMap iterates  *)
(* is fixed by the hasher's random keys, drawn when the map is created:    *)
(* hash_order is that order, a permutation of the group's codes.           *)
(***************************************************************************)
EmptyMap == [cc \in {} |-> 0]

insert(m, cc, nets) ==
  [k \in (DOMAIN m) \cup {cc} |-> IF k = cc THEN nets ELSE m[k]]

\* The keys of m in iteration order.
keys(m, hash_order) == SelectSeq(hash_order, LAMBDA k : k \in DOMAIN m)

\* map.values(): the entries of m in iteration order.
entries(m, ks) == [i \in 1..Len(ks) |-> m[ks[i]]]

values(m, hash_order) == entries(m, keys(m, hash_order))

Orders(S) ==
  {p \in [1..Cardinality(S) -> S] : \A a, b \in DOMAIN p : p[a] = p[b] => a = b}

(***************************************************************************)
(* serde_json::to_writer_pretty of the map: the lines of the text (the     *)
(* text is these lines joined by "\n").                                    *)
(***************************************************************************)
\* A field holding a Vec<SerIpNet>; comma is "," after ipv4, "" after ipv6.
json_field(name, nets, comma) ==
  IF nets = <<>> THEN <<"    \"" \o name \o "\": []" \o comma>>
  ELSE <<"    \"" \o name \o "\": [">>
       \o [i \in 1..Len(nets) |->
             "      \"" \o net_to_string(nets[i]) \o "\""
               \o (IF i < Len(nets) THEN "," ELSE "")]
       \o <<"    ]" \o comma>>

json_entry(cc, entry, comma) ==
  <<"  \"" \o cc \o "\": {">>
  \o json_field("ipv4", entry.ipv4, ",")
  \o json_field("ipv6", entry.ipv6, "")
  \o <<"  }" \o comma>>

json_map(m, ks) ==
  IF ks = <<>> THEN <<"{}">>
  ELSE <<"{">>
       \o Flatten([i \in 1..Len(ks) |->
            json_entry(ks[i], m[ks[i]], IF i < Len(ks) THEN "," ELSE "")])
       \o <<"}">>

to_writer_pretty(m, hash_order) == json_map(m, keys(m, hash_order))

(***************************************************************************)
(* generate_nftables: the lines written to the rule file.                  *)
(***************************************************************************)
\* for nets in map.values() { for ip in &nets.<family> { writeln } }
element_lines(nets) ==
  [j \in 1..Len(nets) |-> "    " \o net_to_string(nets[j]) \o ","]

elements_of(vs, family) ==
  Flatten([i \in 1..Len(vs) |-> element_lines(vs[i][family])])

\* The elements written once each: a set built before it is written.
RECURSIVE distinct(_)
distinct(ss) ==
  IF ss = <<>> THEN <<>>
  ELSE IF \E i \in 1..(Len(ss) - 1) : ss[i] = ss[Len(ss)]
    THEN distinct(SubSeq(ss, 1, Len(ss) - 1))
  ELSE Append(distinct(SubSeq(ss, 1, Len(ss) - 1)), ss[Len(ss)])

set_elements_distinct(m, hash_order, family) ==
  distinct(elements_of(values(m, hash_order), family))

set_elements(m, hash_order, family) ==
  elements_of(values(m, hash_order), family)

\* The rules with the default rule written first.
chain_rules_default_first(a) ==
  CASE a = "Block" ->
         <<"    accept;",
           "    ip saddr @country_ipv4 drop;",
           "    ip6 saddr @country_ipv6 drop;">>
    [] a = "Allow" ->
         <<"    drop;",
           "    ip saddr @country_ipv4 accept;",
           "    ip6 saddr @country_ipv6 accept;">>

\* match action: the three rules of the chain.
chain_rules(a) ==
  CASE a = "Block" ->
         <<"    ip saddr @country_ipv4 drop;",
           "    ip6 saddr @country_ipv6 drop;",
           "    accept;">>
    [] a = "Allow" ->
         <<"    ip saddr @country_ipv4 accept;",
           "    ip6 saddr @country_ipv6 accept;",
           "    drop;">>

nft_lines(m, hash_order, a) ==
  <<"table inet filter {">>
  \o <<"  set country_ipv4 { type ipv4_addr; flags interval; elements = {">>
  \o set_elements(m, hash_order, "ipv4")
  \o <<"  } }">>
  \o <<"  set country_ipv6 { type ipv6_addr; flags interval; elements = {">>
  \o set_elements(m, hash_order, "ipv6")
  \o <<"  } }">>
  \o <<"  chain input {">>
  \o <<"    type filter hook input priority 0;">>
  \o chain_rules(a)
  \o <<"  }">>
  \o <<"}">>

(***************************************************************************)
(* The state of a run.                                                     *)
(***************************************************************************)
VARIABLES
  list,        \* args.list
  action,      \* args.action
  feeds,       \* the remote site: the body served at each URL
  hash_order,  \* iteration order of the HashMap of this run
  pc,          \* where main() is
  pos,         \* position in countries of the country being fetched
  ipv4,        \* the Vec collected from the IPv4 feed of that country
  map,         \* the HashMap being filled
  stdout,      \* lines printed
  err,         \* the error main() returned, if it did
  disk,        \* the output files: file name -> [status, text]
  fetchLog,    \* history: the URLs requested, in order
  touched,     \* history: the files this run created
  writeFailed, \* history: a write of bytes to the data file failed
  loads,       \* history: the rule-loading commands executed
  run,         \* 1 in a first run, 2 in a run repeated on the same input
  start,       \* the disk when this run started
  reply,       \* history: the line read at the prompt
  ipnetwork    \* the forms IpNetwork::from_str accepts in this build

vars == <<list, action, feeds, hash_order, pc, pos, ipv4, map, stdout, err,
          disk, fetchLog, touched, writeFailed, loads, run, start, reply,
          ipnetwork>>

\* The bodies of the specification's end-to-end scenario.
Ipv4Zone == "10.0.0.0/8\n\n192.168.1.0/24\nnot-a-cidr\n"
Ipv6Zone == "2001:db8::/32\n"

\* A list of addresses without prefix lengths: a comment line, which is no
\* network in any build, and an address that is a network in an extended
\* build only.
HostList == "# hosts\n2001:db8::1\n"

\* What the remote site may serve at an IPv4 URL and at an IPv6 URL.
Ipv4Bodies == {Ipv4Zone, Ipv6Zone}
Ipv6Bodies == {Ipv6Zone, HostList}

Feeds(l) ==
  {f \in [Urls(l) -> Ipv4Bodies \cup Ipv6Bodies] :
     \A cc \in Codes(l) : /\ f[ipv4_url(cc)] \in Ipv4Bodies
                          /\ f[ipv6_url(cc)] \in Ipv6Bodies}

\* What the operator may type at the prompt (read_line keeps the newline;
\* "" is end of input).
\* The second answer is upper case and has U+000B before its line ending.
Inputs == {"y\n", " Y\r\n", "n\n", "", "yes\n"}

Absent == [status |-> "absent", text |-> <<>>]

\* File::create succeeded and every byte was written.
Complete(text) == [status |-> "complete", text |-> text]

\* File::create succeeded and some write failed: the file holds a proper
\* prefix of the text, which the model does not track.
Partial == [status |-> "partial", text |-> <<>>]

NoError == [kind |-> "none", context |-> "", at |-> ""]

Init ==
  /\ list \in ListChoice
  /\ action \in Action
  /\ feeds \in Feeds(list)
  /\ hash_order \in Orders(Codes(list))
  /\ pc = "fetch4"
  /\ pos = 1
  /\ ipv4 = <<>>
  /\ map = EmptyMap
  /\ stdout = <<>>
  /\ err = NoError
  /\ disk = [f \in {filename(list), nft_filename(list, action)} |-> Absent]
  /\ fetchLog = <<>>
  /\ touched = {}
  /\ writeFailed = FALSE
  /\ loads = <<>>
  /\ run = 1
  /\ start = disk
  /\ reply = <<>>
  /\ ipnetwork \in Forms

\* The error is noted and the failing step is tried again.
Fail_retry(kind, context, at) ==
  /\ err' = [kind |-> kind, context |-> context, at |-> at]
  /\ pc' = pc

\* main() returns Err: the `?` of the failing call.
Fail(kind, context, at) ==
  /\ err' = [kind |-> kind, context |-> context, at |-> at]
  /\ pc' = "failed"

\* A panic: the thread unwinds and the process exits.
Panic(context, at) ==
  /\ err' = [kind |-> "panic", context |-> context, at |-> at]
  /\ pc' = "failed"

\* println!(line), after which main() is at next: the line is written to the
\* standard output, or the write fails and println! panics.
println(line, next) ==
  \/ /\ stdout' = Append(stdout, line)
     /\ pc' = next
     /\ UNCHANGED err
  \/ /\ Panic("failed printing to stdout", "stdout")
     /\ UNCHANGED stdout

(***************************************************************************)
(* The loop of main(), one fetch per step.                                 *)
(***************************************************************************)
code_at(l, p) == countries(l)[p][1]

name_at(l, p) == countries(l)[p][2]

\* A failed fetch is noted and the loop goes on with no IPv4 network.
get_ipv4_best_effort(url) ==
  /\ fetchLog' = Append(fetchLog, url)
  /\ \/ /\ err' = [kind |-> "fetch", context |-> "GET " \o url, at |-> "fetch"]
        /\ ipv4' = <<>>
        /\ pc' = "fetch6"
     \/ /\ ipv4' = parse_body(feeds[url], ipnetwork)
        /\ pc' = "fetch6"
        /\ UNCHANGED err

\* fetch_cidrs(url): the GET fails, or the body cannot be read as text
\* (both with the URL as context), or the body is parsed.
get_ipv4(url) ==
  /\ fetchLog' = Append(fetchLog, url)
  /\ \/ /\ Fail("fetch", "GET " \o url, "fetch")
        /\ UNCHANGED ipv4
     \/ /\ Fail("fetch", "read response body " \o url, "fetch")
        /\ UNCHANGED ipv4
     \/ /\ ipv4' = parse_body(feeds[url], ipnetwork)
        /\ pc' = "fetch6"
        /\ UNCHANGED err

\* let ipv4 = fetch_cidrs(&ipv4_url).await?
FetchIpv4 ==
  /\ pc = "fetch4"
  /\ get_ipv4(ipv4_url(code_at(list, pos)))
  /\ UNCHANGED <<list, action, feeds, hash_order, pos, map, stdout, disk,
                 touched, writeFailed, loads, run, start, reply, ipnetwork>>

\* The line printed after a country was inserted.
progress(name, cc, entry) ==
  name \o " (" \o to_uppercase(cc) \o ") -> " \o ToString(Len(entry.ipv4))
    \o " IPv4 blocks, " \o ToString(Len(entry.ipv6)) \o " IPv6 blocks"

\* map.insert(cc, CountryNets { ipv4, ipv6 }), the progress line, and the
\* next turn of the loop.
insert_country(cc, name, entry) ==
  /\ map' = insert(map, cc, entry)
  /\ ipv4' = <<>>
  /\ println(progress(name, cc, entry),
             IF pos < Len(countries(list)) THEN "fetch4" ELSE "store")
  /\ pos' = IF pc' = "fetch4" THEN pos + 1 ELSE pos

get_ipv6(cc, name, url) ==
  /\ fetchLog' = Append(fetchLog, url)
  /\ \/ /\ Fail("fetch", "GET " \o url, "fetch")
        /\ UNCHANGED <<map, stdout, pos, ipv4>>
     \/ /\ Fail("fetch", "read response body " \o url, "fetch")
        /\ UNCHANGED <<map, stdout, pos, ipv4>>
     \/ insert_country(cc, name, [ipv4 |-> ipv4, ipv6 |-> parse_body(feeds[url], ipnetwork)])

\* let ipv6 = fetch_cidrs(&ipv6_url).await?, then the insertion.
FetchIpv6 ==
  /\ pc = "fetch6"
  /\ get_ipv6(code_at(list, pos), name_at(list, pos),
              ipv6_url(code_at(list, pos)))
  /\ UNCHANGED <<list, action, feeds, hash_order, disk, touched, writeFailed,
                 loads, run, start, reply, ipnetwork>>

(***************************************************************************)
(* The JSON dump: File::create, BufWriter::new, to_writer_pretty.          *)
(* The serializer writes into the BufWriter, which writes to the file when *)
(* its buffer is full and, last, when it is dropped at the end of          *)
(* to_writer_pretty; the drop discards the result of that last write.      *)
(***************************************************************************)
store(f) ==
  \/ \* File::create fails
     /\ Fail("io", "", "data_create")
     /\ UNCHANGED <<disk, touched, writeFailed, stdout>>
  \/ \* a write of a full buffer fails: to_writer_pretty returns the error
     /\ disk' = [disk EXCEPT ![f] = Partial]
     /\ touched' = touched \cup {f}
     /\ writeFailed' = TRUE
     /\ Fail("io", "", "data_write")
     /\ UNCHANGED stdout
  \/ \* the write of the buffer's rest, in drop, fails: not reported
     /\ disk' = [disk EXCEPT ![f] = Partial]
     /\ touched' = touched \cup {f}
     /\ writeFailed' = TRUE
     /\ println("Wrote " \o f, "render")
  \/ \* every write succeeds
     /\ disk' = [disk EXCEPT ![f] = Complete(to_writer_pretty(map, hash_order))]
     /\ touched' = touched \cup {f}
     /\ println("Wrote " \o f, "render")
     /\ UNCHANGED writeFailed

StoreJson ==
  /\ pc = "store"
  /\ store(filename(list))
  /\ UNCHANGED <<list, action, feeds, hash_order, pos, ipv4, map, fetchLog,
                 loads, run, start, reply, ipnetwork>>

(***************************************************************************)
(* generate_nftables(&map, args.action, &nft_filename)?, then the line     *)
(* printed.  Every writeln! goes to the File and returns its error.        *)
(***************************************************************************)
render(f) ==
  \/ \* File::create fails
     /\ Fail("io", "", "rule_create")
     /\ UNCHANGED <<disk, touched, stdout>>
  \/ \* a writeln! fails
     /\ disk' = [disk EXCEPT ![f] = Partial]
     /\ touched' = touched \cup {f}
     /\ Fail("io", "", "rule_write")
     /\ UNCHANGED stdout
  \/ \* every writeln! succeeds
     /\ disk' = [disk EXCEPT ![f] = Complete(nft_lines(map, hash_order, action))]
     /\ touched' = touched \cup {f}
     /\ println("Wrote " \o f, "prompt")

generate_nftables ==
  /\ pc = "render"
  /\ render(nft_filename(list, action))
  /\ UNCHANGED <<list, action, feeds, hash_order, pos, ipv4, map, fetchLog,
                 writeFailed, loads, run, start, reply, ipnetwork>>

(***************************************************************************)
(* The prompt and the loading of the rules.                                *)
(***************************************************************************)
load_command(f) == "sudo nft -f " \o f

PromptLines(f) ==
  <<"To load the rules manually, run:",
    "   " \o load_command(f),
    "Do you want to load the rules now? [y/N]">>

\* if input.trim().eq_ignore_ascii_case("y")
answer(input, f) ==
  /\ reply' = <<input>>
  /\ IF eq_ignore_ascii_case(trim(input), "y")
       THEN \/ /\ stdout' = stdout \o PromptLines(f)
                              \o <<"Loading rules into nftables...">>
               /\ pc' = "load"
               /\ UNCHANGED err
            \/ /\ stdout' = stdout \o PromptLines(f)
               /\ Panic("failed printing to stdout", "stdout")
       ELSE /\ stdout' = stdout \o PromptLines(f)
            /\ pc' = "done"
            /\ UNCHANGED err

ask(f) ==
  \/ \* one of the three println! fails, after the lines before it
     /\ \E k \in 0..2 : stdout' = stdout \o SubSeq(PromptLines(f), 1, k)
     /\ Panic("failed printing to stdout", "stdout")
     /\ UNCHANGED reply
  \/ \* read_line fails
     /\ stdout' = stdout \o PromptLines(f)
     /\ Fail("io", "", "stdin")
     /\ UNCHANGED reply
  \/ \E input \in Inputs : answer(input, f)

\* The three lines, read_line(&mut input)?, and the test of the answer.
Prompt ==
  /\ pc = "prompt"
  /\ ask(nft_filename(list, action))
  /\ UNCHANGED <<list, action, feeds, hash_order, pos, ipv4, map, disk,
                 fetchLog, touched, writeFailed, loads, run, start, ipnetwork>>

\* Command::new("sudo").arg("nft").arg("-f").arg(&nft_filename).status()
load(f) ==
  \/ \* the command cannot be started: expect() panics
     /\ Panic("failed to execute nft command", "load")
     /\ UNCHANGED <<stdout, loads>>
  \/ \* the command runs and succeeds
     /\ loads' = Append(loads, load_command(f))
     /\ println("Rules loaded successfully.", "done")
  \/ \* the command runs and fails
     /\ loads' = Append(loads, load_command(f))
     /\ println("Failed to load rules. Try manually: " \o load_command(f), "done")

LoadRules ==
  /\ pc = "load"
  /\ load(nft_filename(list, action))
  /\ UNCHANGED <<list, action, feeds, hash_order, pos, ipv4, map, disk,
                 fetchLog, touched, writeFailed, run, start, reply, ipnetwork>>

Next ==
  \/ FetchIpv4
  \/ FetchIpv6
  \/ StoreJson
  \/ generate_nftables
  \/ Prompt
  \/ LoadRules

Spec == Init /\ [][Next]_vars

(***************************************************************************)
(* SpecTwice: the program is run, and after a run that finished it is run  *)
(* once more with the same arguments against the same remote content.  The *)
(* new process creates a new HashMap, with new random hasher keys; the     *)
(* files of the first run are on the disk.                                 *)
(***************************************************************************)
Rerun ==
  /\ pc = "done"
  /\ run = 1
  /\ run' = 2
  /\ start' = disk
  /\ hash_order' \in Orders(Codes(list))
  /\ pc' = "fetch4"
  /\ pos' = 1
  /\ ipv4' = <<>>
  /\ map' = EmptyMap
  /\ stdout' = <<>>
  /\ fetchLog' = <<>>
  /\ touched' = {}
  /\ writeFailed' = FALSE
  /\ loads' = <<>>
  /\ reply' = <<>>
  /\ UNCHANGED <<list, action, feeds, disk, err, ipnetwork>>

NextTwice ==
  \/ Next
  \/ Rerun

SpecTwice == Init /\ [][NextTwice]_vars

(***************************************************************************)
(* Reading the state: the output files, and the rule file's three parts.   *)
(***************************************************************************)
DataFile == disk[filename(list)]

RuleFile == disk[nft_filename(list, action)]

Range(f) == {f[i] : i \in DOMAIN f}

\* Position of the first line of text equal to x, or 0.
IndexOf(text, x) ==
  IF \E i \in 1..Len(text) : text[i] = x
    THEN CHOOSE i \in 1..Len(text) : text[i] = x /\ \A j \in 1..(i - 1) : text[j] # x
    ELSE 0

SetHeader(family) ==
  IF family = "ipv4"
    THEN "  set country_ipv4 { type ipv4_addr; flags interval; elements = {"
    ELSE "  set country_ipv6 { type ipv6_addr; flags interval; elements = {"

ChainHeader == "  chain input {"

\* The lines of a set's definition in the rule file, between its header and
\* the header of what follows it (the line closing the set left out).
SetLines(text, family) ==
  SubSeq(text, IndexOf(text, SetHeader(family)) + 1,
         IndexOf(text, IF family = "ipv4" THEN SetHeader("ipv6") ELSE ChainHeader) - 2)

\* The elements of a set of the written rule file: each line without its
\* indentation and its comma.
Elements(ls) == [i \in 1..Len(ls) |-> SubSeq(ls[i], 5, Len(ls[i]) - 1)]

Written(family) == Elements(SetLines(RuleFile.text, family))

\* The canonical texts of a sequence of networks.
Strings(nets) == [i \in 1..Len(nets) |-> net_to_string(nets[i])]

Count(seq, x) == Cardinality({i \in 1..Len(seq) : seq[i] = x})

\* The sequences a and b hold the same texts, each as often in one as in the
\* other.
SameMultiset(a, b) ==
  \A x \in Range(a) \cup Range(b) : Count(a, x) = Count(b, x)

\* The given family of the countries cs, one entry after the other.
InOrder(cs, family) == Flatten([i \in 1..Len(cs) |-> Strings(map[cs[i]][family])])

\* The texts are the entries of the map one after the other, in some order
\* of the countries.
EntryAfterEntry(texts, strs) ==
  \E p \in Orders(DOMAIN strs) : texts = Flatten([i \in 1..Len(p) |-> strs[p[i]]])

\* The canonical texts of the given family of every entry of the map.
EntryStrings(family) == [cc \in DOMAIN map |-> Strings(map[cc][family])]

DeclaredCodes == [i \in 1..Len(countries(list)) |-> code_at(list, i)]

\* The URLs main() requests when no fetch fails, in order.
UrlSequence ==
  Flatten([i \in 1..Len(countries(list)) |->
    <<ipv4_url(code_at(list, i)), ipv6_url(code_at(list, i))>>])

Families == {"ipv4", "ipv6"}

(***************************************************************************)
(* C1.  A fetch that fails ends the run with an error carrying the URL of  *)
(* that fetch; it is the last fetch issued, nothing runs after it, and     *)
(* neither output file was created at any point of the run.                *)
(***************************************************************************)
C1_FetchFailureAborts ==
  err.kind = "fetch" =>
    /\ pc = "failed"
    /\ fetchLog # <<>>
    /\ fetchLog = SubSeq(UrlSequence, 1, Len(fetchLog))
    /\ err.context \in {"GET " \o Last(fetchLog),
                        "read response body " \o Last(fetchLog)}
    /\ ~ENABLED Next
    /\ touched = {}
    /\ disk = start

\* The IPv6 fetch of the second country fails, after three fetches that
\* succeeded.
C1_Witness ==
  /\ err.kind = "fetch"
  /\ pc = "failed"
  /\ Len(fetchLog) = 4
  /\ err.context = "GET " \o ipv6_url(code_at(list, 2))

(***************************************************************************)
(* C2.  Address families never cross: every network of an ipv4 sequence    *)
(* and every element written to country_ipv4 is an IPv4 network, every     *)
(* network of an ipv6 sequence and every element written to country_ipv6   *)
(* is an IPv6 network.                                                     *)
(***************************************************************************)
C2_FamiliesNeverCross ==
  /\ \A i \in 1..Len(ipv4) : ipv4[i].fam = 4
  /\ \A cc \in DOMAIN map :
       /\ \A i \in 1..Len(map[cc].ipv4) : map[cc].ipv4[i].fam = 4
       /\ \A i \in 1..Len(map[cc].ipv6) : map[cc].ipv6[i].fam = 6
  /\ RuleFile.status = "complete" =>
       /\ \A i \in 1..Len(Written("ipv4")) :
            parse_ip_network(Written("ipv4")[i], ipnetwork).fam = 4
       /\ \A i \in 1..Len(Written("ipv6")) :
            parse_ip_network(Written("ipv6")[i], ipnetwork).fam = 6

(***************************************************************************)
(* C3.  Two runs with the same group, the same policy and the same feed    *)
(* bodies, both finished with both files written in full, leave the same   *)
(* data file and the same rule file.                                       *)
(***************************************************************************)
C3_SameOutputTwice ==
  ( /\ run = 2
    /\ pc = "done"
    /\ \A f \in DOMAIN disk : start[f].status = "complete"
    /\ \A f \in DOMAIN disk : disk[f].status = "complete" )
  => disk = start

(***************************************************************************)
(* C4.  In a rule file written in full, for each family the elements of    *)
(* the set are, counted with multiplicity, exactly the networks of all     *)
(* entries of the map, and they are the entries' sequences one after the   *)
(* other, each in its feed order.  (Stated of the file up to the           *)
(* operator's answer: from there on neither the file nor the map changes.) *)
(***************************************************************************)
C4_SetsAreTheEntries ==
  (RuleFile.status = "complete" /\ reply = <<>>) =>
    \A family \in Families :
      /\ SameMultiset(Written(family), InOrder(DeclaredCodes, family))
      /\ EntryAfterEntry(Written(family), EntryStrings(family))

\* A rule file whose IPv4 set holds a network twice, from two countries that
\* each contributed two networks.
C4_Witness ==
  /\ RuleFile.status = "complete"
  /\ pc = "prompt"
  /\ reply = <<>>
  /\ DOMAIN map = Range(DeclaredCodes)
  /\ Len(map[code_at(list, 1)].ipv4) = 2
  /\ map[code_at(list, 2)].ipv4 = map[code_at(list, 1)].ipv4
  /\ Count(Written("ipv4"), "10.0.0.0/8") = 2
  /\ Written("ipv6") # <<>>

(***************************************************************************)
(* C5.  In a rule file written in full the chain comes after both sets and *)
(* holds exactly three rules: the IPv4 membership rule, the IPv6           *)
(* membership rule, the default rule; drop, drop, accept under Block and   *)
(* accept, accept, drop under Allow.                                       *)
(***************************************************************************)
ClaimedRules ==
  IF action = "Block"
    THEN <<"    ip saddr @country_ipv4 drop;",
           "    ip6 saddr @country_ipv6 drop;",
           "    accept;">>
    ELSE <<"    ip saddr @country_ipv4 accept;",
           "    ip6 saddr @country_ipv6 accept;",
           "    drop;">>

C5_ThreeRulesInOrder ==
  RuleFile.status = "complete" =>
    LET text == RuleFile.text
        chain == IndexOf(text, ChainHeader)
    IN  /\ 0 < IndexOf(text, SetHeader("ipv4"))
        /\ IndexOf(text, SetHeader("ipv4")) < IndexOf(text, SetHeader("ipv6"))
        /\ IndexOf(text, SetHeader("ipv6")) < chain
        /\ text[chain - 1] = "  } }"
        /\ Len(text) = chain + 6
        /\ text[chain + 1] = "    type filter hook input priority 0;"
        /\ SubSeq(text, chain + 2, chain + 4) = ClaimedRules
        /\ text[chain + 5] = "  }"
        /\ text[chain + 6] = "}"

\* An Allow rule file whose IPv6 set is empty.
C5_Witness ==
  /\ RuleFile.status = "complete"
  /\ action = "Allow"
  /\ Written("ipv6") = <<>>
  /\ Written("ipv4") # <<>>

(***************************************************************************)
(* C6.  Countries are processed in declaration order, and that order is    *)
(* the order of the progress lines and of the countries' networks in both  *)
(* sets of the rule file.                                                  *)
(***************************************************************************)
C6_DeclarationOrder ==
  /\ fetchLog = SubSeq(UrlSequence, 1, Len(fetchLog))
  /\ \A i \in 1..Min(Len(stdout), Cardinality(DOMAIN map)) :
       stdout[i] = progress(name_at(list, i), code_at(list, i), map[code_at(list, i)])
  /\ RuleFile.status = "complete" =>
       \A family \in Families : Written(family) = InOrder(DeclaredCodes, family)

(***************************************************************************)
(* C7.  When a write of the serialized map to the data file fails, the     *)
(* final write of the buffered bytes included, the run ends with an I/O    *)
(* error, "Wrote <data file>" is not printed and the rule file is not      *)
(* generated.                                                              *)
(***************************************************************************)
C7_DataWriteFailureAborts ==
  writeFailed =>
    /\ pc = "failed"
    /\ err.kind = "io"
    /\ \A i \in 1..Len(stdout) : stdout[i] # "Wrote " \o filename(list)
    /\ nft_filename(list, action) \notin touched

(***************************************************************************)
(* C8 as stated.  A run that ends with a fetch error or an I/O error       *)
(* leaves no output file of that run on the disk.                          *)
(***************************************************************************)
C8_NoPartialOutput ==
  (pc = "failed" /\ err.kind \in {"fetch", "io"}) =>
    /\ touched = {}
    /\ disk = start

(***************************************************************************)
(* C8 (the code).  Every fetch error and every reported I/O error is       *)
(* fatal, as is a panic (a line that cannot be printed, a command that     *)
(* cannot be started): the run stops there and nothing is retried.  After  *)
(* a fetch error or a failure to create the data file no output file was   *)
(* written.  A later failure leaves on the disk what was written before    *)
(* it: a partial data file after a failed write of it, the data file after *)
(* a failure to create the rule file, the data file and a partial rule     *)
(* file after a failed write of the rule file, both files after a failed   *)
(* read of the operator's answer.                                          *)
(***************************************************************************)
C8_FatalNotTransactional ==
  /\ err.kind # "none" => pc = "failed" /\ ~ENABLED Next
  /\ err.kind \in {"fetch", "io"} =>
    /\ err.at \in {"fetch", "data_create"} =>
         touched = {} /\ disk = start
    /\ err.at = "data_write" =>
         /\ touched = {filename(list)}
         /\ DataFile.status = "partial"
         /\ RuleFile = start[nft_filename(list, action)]
    /\ err.at = "rule_create" =>
         /\ touched = {filename(list)}
         /\ DataFile.status # "absent"
         /\ RuleFile = start[nft_filename(list, action)]
    /\ err.at = "rule_write" =>
         /\ touched = {filename(list), nft_filename(list, action)}
         /\ DataFile.status # "absent"
         /\ RuleFile.status = "partial"
    /\ err.at = "stdin" =>
         /\ touched = {filename(list), nft_filename(list, action)}
         /\ DataFile.status # "absent"
         /\ RuleFile.status = "complete"

\* The rule file cannot be created after the data file was written in full.
C8_Witness ==
  /\ pc = "failed"
  /\ err.at = "rule_create"
  /\ DataFile = Complete(to_writer_pretty(map, hash_order))
  /\ RuleFile.status = "absent"

(***************************************************************************)
(* C10.  The rule-loading command is executed at most once in a run, and   *)
(* only after every fetch succeeded, the data file and then the rule file  *)
(* were written without error, and the operator's answer, trimmed, was "y" *)
(* in either case.                                                         *)
(***************************************************************************)
C10_LoadOnlyAfterSuccess ==
  loads # <<>> =>
    /\ loads = <<"sudo nft -f " \o nft_filename(list, action)>>
    /\ fetchLog = UrlSequence
    /\ DOMAIN map = Range(DeclaredCodes)
    /\ ~writeFailed
    /\ DataFile.status = "complete"
    /\ RuleFile.status = "complete"
    /\ reply # <<>>
    /\ trim(reply[1]) \in {"y", "Y"}

============================================================================
